---- MODULE Spec2Model ----
(***************************************************************************)
(* API gateway of the shopping-list microservices: per-service circuit     *)
(* breaker, service discovery and the reverse proxy handler.               *)
(*                                                                         *)
(* Time is Date.now() in milliseconds.  A proxied request is two atomic    *)
(* steps of the single-threaded event loop: everything up to the           *)
(* `await axios(...)` (ProxyStart), and everything after the promise       *)
(* settles (ProxyComplete).  Requests interleave only at that await.       *)
(*                                                                         *)
(* Further specifications over the same variables cover the breaker        *)
(* helpers called by name (SpecNames), the aggregation and health          *)
(* endpoints (SpecAgg), the dashboard statistics (SpecStats), the path     *)
(* rewrite (SpecPath) and the list service's item additions (SpecList).    *)
(***************************************************************************)
EXTENDS Integers, FiniteSets, Sequences, TLC

\* ---------------------------------------------------------------- bounds
MaxReqs == 2
MaxTicks == 2
MaxArrivals == 4
MaxCalls == 5
MaxLists == 2
MaxListItems == 2
MaxCatalog == 1
MaxRemainder == 3
MaxHandlers == 2
MaxPosts == 3

\* ------------------------------------------------------ program constants
MAX_FAILURES == 3
CIRCUIT_TIMEOUT == 60000
\* `lastFail: null` of a breaker that never opened
Null == -1

\* the names the proxy routes pass to proxyRequest, which are also the keys
\* of the circuitBreaker object
Services == {"user-service", "item-service", "list-service"}

Reqs == 1..MaxReqs

\* the proxy routes and the service each one forwards to
Routes == {"/api/auth", "/api/users", "/api/items", "/api/lists"}
RouteService(pathPrefix) ==
    CASE pathPrefix = "/api/auth"  -> "user-service"
      [] pathPrefix = "/api/users" -> "user-service"
      [] pathPrefix = "/api/items" -> "item-service"
      [] pathPrefix = "/api/lists" -> "list-service"

\* clock advances offered to the model: one millisecond, and a whole
\* CIRCUIT_TIMEOUT, so that elapsed times just below, at and just above the
\* timeout all occur
TickSteps == {1, CIRCUIT_TIMEOUT}

\* what the backend does with a forwarded request: answers with a status
\* (axios rejects the promise for a status outside 2xx, with error.response
\* set), or the transport fails (error.response undefined)
UpstreamStatuses == {200, 404, 500}
UpstreamBody == "upstream-body"
NoResponse == [status |-> 0, body |-> "none"]
Upstreams == [status : UpstreamStatuses, body : {UpstreamBody}] \cup {NoResponse}

VARIABLES
    circuitBreaker,   \* serviceName -> [failures, open, lastFail]
    registry,         \* serviceName -> ServiceRecord, for the registered names
    now,              \* Date.now()
    ticks,            \* number of clock advances so far
    req,              \* request slot -> the proxied request in flight in it
    last,             \* the request answered most recently, with its effects
    arrivals,         \* number of proxied requests received so far
    streak            \* history: recordFailure calls since the last success / timeout reset

vars == <<circuitBreaker, registry, now, ticks, req, last, arrivals, streak>>

\* state of the parts of the system that the proxy handler does not touch
VARIABLES
    probe,            \* direct calls of the breaker helpers: count and last result
    agg,              \* the /health, /api/dashboard or /api/search request being handled
    stat,             \* a dashboard statistics computation: its inputs and result
    path,             \* a path rewrite: the inbound URL, the prefix and the result
    ls                \* the list service: the stored list and its POST handlers

rest == <<stat, path, ls>>
aux == <<probe, agg, rest>>
allvars == <<vars, aux>>

\* ------------------------------------------------------- circuit breaker
\* canRequest: the returned boolean and the breaker object afterwards
\* mutant: the timeout branch reopens the gate but keeps the failure count
canRequest_keepCount(cb, serviceName, t) ==
    IF serviceName \notin DOMAIN cb THEN [ret |-> TRUE, cb |-> cb]
    ELSE IF ~cb[serviceName].open THEN [ret |-> TRUE, cb |-> cb]
    ELSE IF t - cb[serviceName].lastFail > CIRCUIT_TIMEOUT
         THEN [ret |-> TRUE, cb |-> [cb EXCEPT ![serviceName].open = FALSE]]
         ELSE [ret |-> FALSE, cb |-> cb]

\* mutant: a rejected check restarts the open window
canRequest_touch(cb, serviceName, t) ==
    IF serviceName \notin DOMAIN cb THEN [ret |-> TRUE, cb |-> cb]
    ELSE IF ~cb[serviceName].open THEN [ret |-> TRUE, cb |-> cb]
    ELSE IF t - cb[serviceName].lastFail > CIRCUIT_TIMEOUT
         THEN [ret |-> TRUE,
               cb  |-> [cb EXCEPT ![serviceName].open = FALSE,
                                  ![serviceName].failures = 0]]
         ELSE [ret |-> FALSE, cb |-> [cb EXCEPT ![serviceName].lastFail = t]]

canRequest(cb, serviceName, t) ==
    IF serviceName \notin DOMAIN cb THEN [ret |-> TRUE, cb |-> cb]
    ELSE IF ~cb[serviceName].open THEN [ret |-> TRUE, cb |-> cb]
    ELSE IF t - cb[serviceName].lastFail > CIRCUIT_TIMEOUT
         THEN [ret |-> TRUE,
               cb  |-> [cb EXCEPT ![serviceName].open = FALSE,
                                  ![serviceName].failures = 0]]
         ELSE [ret |-> FALSE, cb |-> cb]

\* mutant: the breaker opens one failure late (> instead of >=)
recordFailure_late(cb, serviceName, t) ==
    IF serviceName \notin DOMAIN cb THEN cb
    ELSE LET n == cb[serviceName].failures + 1 IN
         IF n > MAX_FAILURES
         THEN [cb EXCEPT ![serviceName].failures = n,
                         ![serviceName].open = TRUE,
                         ![serviceName].lastFail = t]
         ELSE [cb EXCEPT ![serviceName].failures = n]

\* mutant: the breaker opens without stamping lastFail
recordFailure_noStamp(cb, serviceName, t) ==
    IF serviceName \notin DOMAIN cb THEN cb
    ELSE LET n == cb[serviceName].failures + 1 IN
         IF n >= MAX_FAILURES
         THEN [cb EXCEPT ![serviceName].failures = n,
                         ![serviceName].open = TRUE]
         ELSE [cb EXCEPT ![serviceName].failures = n]

\* mutant: reaching the threshold trips every breaker, not only the caller's
recordFailure_global(cb, serviceName, t) ==
    IF serviceName \notin DOMAIN cb THEN cb
    ELSE LET n == cb[serviceName].failures + 1 IN
         IF n >= MAX_FAILURES
         THEN [o \in DOMAIN cb |->
                 IF o = serviceName
                 THEN [failures |-> n, open |-> TRUE, lastFail |-> t]
                 ELSE [cb[o] EXCEPT !.open = TRUE, !.lastFail = t]]
         ELSE [cb EXCEPT ![serviceName].failures = n]

recordFailure(cb, serviceName, t) ==
    IF serviceName \notin DOMAIN cb THEN cb
    ELSE LET n == cb[serviceName].failures + 1 IN
         IF n >= MAX_FAILURES
         THEN [cb EXCEPT ![serviceName].failures = n,
                         ![serviceName].open = TRUE,
                         ![serviceName].lastFail = t]
         ELSE [cb EXCEPT ![serviceName].failures = n]

\* mutant: a success clears the count but leaves the gate as it is
recordSuccess_countOnly(cb, serviceName) ==
    IF serviceName \notin DOMAIN cb THEN cb
    ELSE [cb EXCEPT ![serviceName].failures = 0]

recordSuccess(cb, serviceName) ==
    IF serviceName \notin DOMAIN cb THEN cb
    ELSE [cb EXCEPT ![serviceName].failures = 0,
                    ![serviceName].open = FALSE]

\* ------------------------------------------------------ service registry
\* the address a service announces when it registers
ServiceUrl(serviceName) ==
    CASE serviceName = "user-service" -> "http://localhost:3001"
      [] serviceName = "item-service" -> "http://localhost:3002"
      [] serviceName = "list-service" -> "http://localhost:3003"
      [] OTHER -> "http://localhost"

\* discover(name): the record, or the NotFound failure when there is none
discover(reg, serviceName) ==
    IF serviceName \in DOMAIN reg
    THEN [ok |-> TRUE, service |-> reg[serviceName]]
    ELSE [ok |-> FALSE, service |-> [url |-> "null", healthy |-> FALSE]]

\* mutant: an unknown service falls back to a default address
getServiceUrl_fallback(reg, serviceName) ==
    IF discover(reg, serviceName).ok
    THEN discover(reg, serviceName).service.url
    ELSE "http://localhost"

\* getServiceUrl: service.url, or null when discover throws
getServiceUrl(reg, serviceName) ==
    IF discover(reg, serviceName).ok
    THEN discover(reg, serviceName).service.url
    ELSE "null"

\* ------------------------------------------------------------ forwarding
\* `await axios(axiosConfig)` resolves for a 2xx status and rejects otherwise
\* (with error.response set when a response was received)
axiosResolves(up) ==
    up # NoResponse /\ up.status >= 200 /\ up.status < 300

\* mutant: the catch block ignores error.response
errorReply_generic(up) ==
    [status |-> 500, body |-> "forward-error"]

\* what the catch block sends to the client
errorReply(up) ==
    IF up # NoResponse
    THEN [status |-> up.status, body |-> up.body]
    ELSE [status |-> 500, body |-> "forward-error"]

\* ---------------------------------------------------------- request slots
IdleReq ==
    [pc |-> "idle", svc |-> "none", gate |-> "none", sent |-> 0,
     recS |-> 0, recF |-> 0, replies |-> 0, status |-> 0, body |-> "none",
     upstream |-> NoResponse, wasOpen |-> FALSE]

\* ------------------------------------------- aggregation and health handlers
\* dashboard statistics, computed with the reduce calls of the handler
RECURSIVE SumItems(_)
SumItems(lists) ==
    IF lists = <<>> THEN 0
    ELSE SumItems(Tail(lists))
         + (IF Head(lists).hasItems THEN Len(Head(lists).items) ELSE 0)

RECURSIVE CountPurchased(_)
CountPurchased(items) ==
    IF items = <<>> THEN 0
    ELSE CountPurchased(Tail(items)) + (IF Head(items) THEN 1 ELSE 0)

RECURSIVE SumPurchased(_)
SumPurchased(lists) ==
    IF lists = <<>> THEN 0
    ELSE SumPurchased(Tail(lists))
         + (IF Head(lists).hasItems THEN CountPurchased(Head(lists).items) ELSE 0)

RECURSIVE SumEstimated(_)
SumEstimated(lists) ==
    IF lists = <<>> THEN 0
    ELSE SumEstimated(Tail(lists))
         + (IF Head(lists).hasSummary THEN Head(lists).estimatedTotal ELSE 0)

\* mutant: totalPurchased counts every item of the lists
dashboardStats_allItems(lists, items) ==
    [totalLists |-> Len(lists),
     totalItemsInLists |-> SumItems(lists),
     totalPurchased |-> SumItems(lists),
     totalEstimated |-> SumEstimated(lists),
     totalCatalogItems |-> Len(items)]

dashboardStats(lists, items) ==
    [totalLists |-> Len(lists),
     totalItemsInLists |-> SumItems(lists),
     totalPurchased |-> SumPurchased(lists),
     totalEstimated |-> SumEstimated(lists),
     totalCatalogItems |-> Len(items)]

NoStats == dashboardStats(<<>>, <<>>)

\* the Authorization header of the request, as jwt.verify sees it
Auths == {"missing", "invalid", "valid"}

\* mutant: any bearer token is accepted without verification
jwtAuthMiddleware_lax(auth) ==
    auth # "missing"

\* jwtAuthMiddleware: TRUE when next() is called, FALSE when it answers 401
jwtAuthMiddleware(auth) ==
    auth = "valid"

\* the names /health probes, in order
HealthServices == <<"user-service", "item-service", "list-service">>

\* the upstream calls of an aggregation handler, in order
aggPlan(kind) ==
    IF kind = "dashboard"
    THEN <<"user-service", "list-service", "item-service">>
    ELSE <<"list-service", "item-service">>

\* the services whose address an aggregation handler resolves first
aggNeeds(kind) == {aggPlan(kind)[i] : i \in DOMAIN aggPlan(kind)}

\* mutant: a rejected call is skipped and the handler goes on
afterCall_continue(kind, n, resolved) ==
    IF n < Len(aggPlan(kind)) THEN "next" ELSE "respond"

\* what an aggregation handler does when its n-th awaited call settles
afterCall(kind, n, resolved) ==
    IF ~resolved THEN "abort"
    ELSE IF n < Len(aggPlan(kind)) THEN "next" ELSE "respond"

\* mutant: a failed probe ends the loop with an error
afterProbe_abort(n, resolved) ==
    IF ~resolved THEN "abort"
    ELSE IF n < Len(HealthServices) THEN "next" ELSE "respond"

\* what /health does when the probe of its n-th service is over
afterProbe(n, resolved) ==
    IF n < Len(HealthServices) THEN "next" ELSE "respond"

\* payloads (`data.data`) the backends answer with
SampleList1 ==
    [hasItems |-> TRUE, items |-> <<TRUE, FALSE>>, hasSummary |-> TRUE,
     estimatedTotal |-> 4, match |-> TRUE]
SampleList2 ==
    [hasItems |-> FALSE, items |-> <<>>, hasSummary |-> FALSE,
     estimatedTotal |-> 0, match |-> FALSE]
UserData == {"undefined", "user"}
ListData == {<<>>, <<SampleList1, SampleList2>>}
ItemData == {<<>>, <<"item-1", "item-2">>}
NoData == [user |-> "undefined", lists |-> <<>>, items |-> <<>>]
Payloads == [user : UserData, lists : ListData, items : ItemData]

\* lists.filter(...) of the search handler
RECURSIVE filterLists(_)
filterLists(lists) ==
    IF lists = <<>> THEN <<>>
    ELSE IF Head(lists).match
         THEN <<Head(lists)>> \o filterLists(Tail(lists))
         ELSE filterLists(Tail(lists))

IdleAgg ==
    [kind |-> "none", pc |-> "idle", auth |-> "missing", q |-> FALSE,
     step |-> 0, calls |-> <<>>, outcomes |-> <<>>,
     user |-> "undefined", lists |-> <<>>, items |-> <<>>,
     results |-> <<>>, stats |-> NoStats, status |-> 0, body |-> "none"]

IdleProbe == [calls |-> 0, op |-> "none", name |-> "none", ret |-> TRUE]

\* ------------------------------------------------- dashboard statistics
IdleStat == [pc |-> "idle", lists |-> <<>>, items |-> <<>>, stats |-> NoStats]

\* ----------------------------------------------------------- path rewrite
\* a string is the sequence of its characters
startsWith(s, p) == Len(s) >= Len(p) /\ SubSeq(s, 1, Len(p)) = p

slice(s, n) == SubSeq(s, n + 1, Len(s))

\* String.prototype.replace with a string pattern: the first occurrence only
replace(s, pat, by) ==
    LET at == {i \in 1..(Len(s) - Len(pat) + 1) :
                  SubSeq(s, i, i + Len(pat) - 1) = pat} IN
    IF at = {} THEN s
    ELSE LET i == CHOOSE k \in at : \A j \in at : k <= j IN
         SubSeq(s, 1, i - 1) \o by \o SubSeq(s, i + Len(pat), Len(s))

Api == <<"/", "a", "p", "i">>

\* the characters of the pathPrefix each route passes to proxyRequest
PrefixChars(pathPrefix) ==
    CASE pathPrefix = "/api/auth"  -> Api \o <<"/", "a", "u", "t", "h">>
      [] pathPrefix = "/api/users" -> Api \o <<"/", "u", "s", "e", "r", "s">>
      [] pathPrefix = "/api/items" -> Api \o <<"/", "i", "t", "e", "m", "s">>
      [] pathPrefix = "/api/lists" -> Api \o <<"/", "l", "i", "s", "t", "s">>

getTargetPath(originalUrl, pathPrefix) ==
    IF startsWith(originalUrl, pathPrefix)
    THEN LET newPath == slice(originalUrl, Len(pathPrefix)) IN
         IF newPath = <<>> \/ newPath = <<"/">>
         THEN replace(pathPrefix, Api, <<>>)
         ELSE replace(pathPrefix, Api, <<>>)
              \o (IF ~startsWith(newPath, <<"/">>) THEN <<"/">> \o newPath
                  ELSE newPath)
    ELSE originalUrl

\* proxyRequest puts a '/' in front of a target path that has none
cleanTargetPath(targetPath) ==
    IF startsWith(targetPath, <<"/">>) THEN targetPath ELSE <<"/">> \o targetPath

IdlePath == [pc |-> "idle", originalUrl |-> <<>>, pathPrefix |-> <<>>, out |-> <<>>]

\* ----------------------------------------------------------- list service
\* the averagePrice the item service reports for each catalog item
ItemIds == {"item-1", "item-2"}
averagePrice(itemId) == IF itemId = "item-1" THEN 3 ELSE 5

\* the list the handlers work on, as POST /lists leaves it
ListId == "list-1"
NewList ==
    [id |-> ListId, items |-> <<>>,
     summary |-> [totalItems |-> 0, purchasedItems |-> 0, estimatedTotal |-> 0]]

RECURSIVE purchasedCount(_)
purchasedCount(items) ==
    IF items = <<>> THEN 0
    ELSE purchasedCount(Tail(items)) + (IF Head(items).purchased THEN 1 ELSE 0)

RECURSIVE priceTotal(_)
priceTotal(items) ==
    IF items = <<>> THEN 0
    ELSE priceTotal(Tail(items)) + Head(items).estimatedPrice * Head(items).quantity

recalculateSummary(list) ==
    [list EXCEPT !.summary = [totalItems |-> Len(list.items),
                              purchasedItems |-> purchasedCount(list.items),
                              estimatedTotal |-> priceTotal(list.items)]]

\* JsonDatabase over a JSON file: findById parses the file and returns the
\* document with that id, a fresh object on every call; update writes the
\* given fields over the stored document
findById(db, id) ==
    IF id = db.id THEN [found |-> TRUE, doc |-> db]
    ELSE [found |-> FALSE, doc |-> NewList]

update(db, id, updates) == IF id = db.id THEN updates ELSE db

IdleHandler ==
    [pc |-> "idle", id |-> "none", itemId |-> "none", quantity |-> 0,
     list |-> NewList, addedAt |-> 0, status |-> 0]

Handlers == 1..MaxHandlers

IdleLs ==
    [db |-> NewList, h |-> [k \in Handlers |-> IdleHandler],
     posts |-> 0, clock |-> 1, acked |-> {}]

InitGateway ==
    /\ circuitBreaker = [s \in Services |->
                            [failures |-> 0, open |-> FALSE, lastFail |-> Null]]
    /\ registry = <<>>
    /\ now = 0
    /\ ticks = 0
    /\ req = [r \in Reqs |-> IdleReq]
    /\ last = IdleReq
    /\ arrivals = 0
    /\ streak = [s \in Services |-> 0]

RestIdle ==
    /\ stat = IdleStat
    /\ path = IdlePath
    /\ ls = IdleLs

AuxIdle ==
    /\ probe = IdleProbe
    /\ agg = IdleAgg
    /\ RestIdle

Init ==
    /\ InitGateway
    /\ AuxIdle

\* ----------------------------------------------------------------- actions
\* a backend service starts and announces itself
Register(serviceName) ==
    /\ serviceName \notin DOMAIN registry
    /\ registry' = [n \in DOMAIN registry \cup {serviceName} |->
                       IF n = serviceName
                       THEN [url |-> ServiceUrl(serviceName), healthy |-> TRUE]
                       ELSE registry[n]]
    /\ UNCHANGED <<circuitBreaker, now, ticks, req, last, arrivals, streak>>
    /\ UNCHANGED aux

Tick(d) ==
    /\ ticks < MaxTicks
    /\ now' = now + d
    /\ ticks' = ticks + 1
    /\ UNCHANGED <<circuitBreaker, registry, req, last, arrivals, streak>>
    /\ UNCHANGED aux

\* a new request takes the first free slot
FreeSlot(r) ==
    /\ req[r].pc = "idle"
    /\ \A q \in Reqs : q < r => req[q].pc # "idle"

\* proxyRequest up to the await: gate, lookup, send
ProxyStart(r, serviceName) ==
    /\ FreeSlot(r)
    /\ arrivals < MaxArrivals
    /\ arrivals' = arrivals + 1
    /\ LET gate == canRequest(circuitBreaker, serviceName, now)
           baseUrl == getServiceUrl(registry, serviceName)
           how == IF ~gate.ret THEN "rejected"
                  ELSE IF circuitBreaker[serviceName].open THEN "reset" ELSE "closed"
           arrived == [IdleReq EXCEPT !.svc = serviceName, !.gate = how,
                                      !.wasOpen = circuitBreaker[serviceName].open]
       IN  /\ circuitBreaker' = gate.cb
           /\ streak' = IF how = "reset"
                        THEN [streak EXCEPT ![serviceName] = 0] ELSE streak
           /\ IF ~gate.ret
              THEN /\ last' = [arrived EXCEPT !.pc = "done", !.replies = 1,
                                   !.status = 503, !.body = "breaker-open"]
                   /\ UNCHANGED req
              ELSE IF baseUrl = "null"
              THEN /\ last' = [arrived EXCEPT !.pc = "done", !.replies = 1,
                                   !.status = 503, !.body = "not-found"]
                   /\ UNCHANGED req
              ELSE /\ req' = [req EXCEPT ![r] =
                                 [arrived EXCEPT !.pc = "inflight", !.sent = 1]]
                   /\ UNCHANGED last
    /\ UNCHANGED <<registry, now, ticks>>
    /\ UNCHANGED aux

\* mutant: a settled call is sent again instead of being answered
ProxyComplete_retry(r, up) ==
    /\ req[r].pc = "inflight"
    /\ req[r].sent < 2
    /\ req' = [req EXCEPT ![r].sent = @ + 1]
    /\ UNCHANGED <<circuitBreaker, registry, now, ticks, last, arrivals, streak>>
    /\ UNCHANGED aux

\* proxyRequest after the await: record the outcome, answer the client
ProxyComplete(r, up) ==
    /\ req[r].pc = "inflight"
    /\ LET serviceName == req[r].svc
           settled == [req[r] EXCEPT !.pc = "done", !.upstream = up,
                                     !.replies = @ + 1,
                                     !.wasOpen = circuitBreaker[serviceName].open]
       IN  IF axiosResolves(up)
           THEN /\ circuitBreaker' = recordSuccess(circuitBreaker, serviceName)
                /\ streak' = [streak EXCEPT ![serviceName] = 0]
                /\ last' = [settled EXCEPT !.recS = @ + 1,
                                !.status = up.status, !.body = up.body]
           ELSE /\ circuitBreaker' = recordFailure(circuitBreaker, serviceName, now)
                /\ streak' = [streak EXCEPT ![serviceName] = @ + 1]
                /\ last' = [settled EXCEPT !.recF = @ + 1,
                                !.status = errorReply(up).status,
                                !.body = errorReply(up).body]
    /\ req' = [req EXCEPT ![r] = IdleReq]
    /\ UNCHANGED <<registry, now, ticks, arrivals>>
    /\ UNCHANGED aux

Next ==
    \/ \E s \in Services : Register(s)
    \/ \E d \in TickSteps : Tick(d)
    \/ \E r \in Reqs, s \in Services : ProxyStart(r, s)
    \/ \E r \in Reqs, up \in Upstreams : ProxyComplete(r, up)

Spec == Init /\ [][Next]_allvars

\* ------------------------------------------- breaker helpers, called by name
\* the helpers take any string: the routed names and one that has no entry
\* in the circuitBreaker object
Names == Services \cup {"other-service"}

InitNames ==
    /\ circuitBreaker = [s \in Services |->
                            [failures |-> 0, open |-> FALSE, lastFail |-> Null]]
    /\ registry = <<>>
    /\ now = 0
    /\ ticks = 0
    /\ req = [r \in Reqs |-> IdleReq]
    /\ last = IdleReq
    /\ arrivals = 0
    /\ streak = [n \in Names |-> 0]
    /\ probe = IdleProbe
    /\ agg = IdleAgg
    /\ RestIdle

CallCanRequest(n) ==
    /\ probe.calls < MaxCalls
    /\ LET gate == canRequest(circuitBreaker, n, now) IN
       /\ circuitBreaker' = gate.cb
       /\ streak' = IF gate.cb # circuitBreaker
                    THEN [streak EXCEPT ![n] = 0] ELSE streak
       /\ probe' = [calls |-> probe.calls + 1, op |-> "canRequest",
                    name |-> n, ret |-> gate.ret]
    /\ UNCHANGED <<registry, now, ticks, req, last, arrivals>>
    /\ UNCHANGED <<agg, rest>>

CallRecordFailure(n) ==
    /\ probe.calls < MaxCalls
    /\ circuitBreaker' = recordFailure(circuitBreaker, n, now)
    /\ streak' = [streak EXCEPT ![n] = @ + 1]
    /\ probe' = [calls |-> probe.calls + 1, op |-> "recordFailure",
                 name |-> n, ret |-> TRUE]
    /\ UNCHANGED <<registry, now, ticks, req, last, arrivals>>
    /\ UNCHANGED <<agg, rest>>

CallRecordSuccess(n) ==
    /\ probe.calls < MaxCalls
    /\ circuitBreaker' = recordSuccess(circuitBreaker, n)
    /\ streak' = [streak EXCEPT ![n] = 0]
    /\ probe' = [calls |-> probe.calls + 1, op |-> "recordSuccess",
                 name |-> n, ret |-> TRUE]
    /\ UNCHANGED <<registry, now, ticks, req, last, arrivals>>
    /\ UNCHANGED <<agg, rest>>

ClockNames(d) == Tick(d)

NextNames ==
    \/ \E n \in Names : CallCanRequest(n)
    \/ \E n \in Names : CallRecordFailure(n)
    \/ \E n \in Names : CallRecordSuccess(n)
    \/ \E d \in TickSteps : ClockNames(d)

SpecNames == InitNames /\ [][NextNames]_allvars

\* ------------------------------------- /health, /api/dashboard, /api/search
\* the registry with exactly the services of S registered
RegistryOf(S) ==
    [n \in S |-> [url |-> ServiceUrl(n), healthy |-> TRUE]]

\* breaker records that proxied traffic leaves behind: untouched, or opened
\* by three failures at time 0
BreakerSamples ==
    {[failures |-> 0, open |-> FALSE, lastFail |-> Null],
     [failures |-> MAX_FAILURES, open |-> TRUE, lastFail |-> 0]}

InitAgg ==
    /\ circuitBreaker \in [Services -> BreakerSamples]
    /\ registry \in {RegistryOf(S) : S \in SUBSET Services}
    /\ now = 0
    /\ ticks = 0
    /\ req = [r \in Reqs |-> IdleReq]
    /\ last = IdleReq
    /\ arrivals = 0
    /\ streak = [s \in Services |-> circuitBreaker[s].failures]
    /\ probe = IdleProbe
    /\ agg = IdleAgg
    /\ RestIdle

AggUnchanged ==
    /\ UNCHANGED <<circuitBreaker, registry, now, ticks, req, last, arrivals,
                   streak>>
    /\ UNCHANGED <<probe, rest>>

AggReply(a, status, body) ==
    [a EXCEPT !.pc = "done", !.status = status, !.body = body]

\* GET /api/dashboard up to its first await
DashboardStart(auth) ==
    /\ agg.pc \in {"idle", "done"}
    /\ LET a == [IdleAgg EXCEPT !.kind = "dashboard", !.auth = auth, !.q = FALSE] IN
       IF ~jwtAuthMiddleware(auth)
       THEN agg' = AggReply(a, 401, "unauthorized")
       ELSE IF \E n \in aggNeeds("dashboard") : getServiceUrl(registry, n) = "null"
       THEN agg' = AggReply(a, 503, "unavailable")
       ELSE agg' = [a EXCEPT !.pc = "wait", !.step = 1,
                             !.calls = <<aggPlan("dashboard")[1]>>]
    /\ AggUnchanged

\* GET /api/search up to its first await
SearchStart(auth, q) ==
    /\ agg.pc \in {"idle", "done"}
    /\ LET a == [IdleAgg EXCEPT !.kind = "search", !.auth = auth, !.q = q] IN
       IF ~jwtAuthMiddleware(auth)
       THEN agg' = AggReply(a, 401, "unauthorized")
       ELSE IF ~q
       THEN agg' = AggReply(a, 400, "query-required")
       ELSE IF \E n \in aggNeeds("search") : getServiceUrl(registry, n) = "null"
       THEN agg' = AggReply(a, 503, "unavailable")
       ELSE agg' = [a EXCEPT !.pc = "wait", !.step = 1,
                             !.calls = <<aggPlan("search")[1]>>]
    /\ AggUnchanged

\* the awaited axios.get of /api/dashboard or /api/search settles
AggSettle(up, d) ==
    /\ agg.pc = "wait"
    /\ agg.kind \in {"dashboard", "search"}
    /\ LET resolved == axiosResolves(up)
           svc == agg.calls[Len(agg.calls)]
           got == [agg EXCEPT
                     !.outcomes = Append(@, resolved),
                     !.user  = IF resolved /\ svc = "user-service" THEN d.user ELSE @,
                     !.lists = IF resolved /\ svc = "list-service" THEN d.lists ELSE @,
                     !.items = IF resolved /\ svc = "item-service" THEN d.items ELSE @]
           todo == afterCall(agg.kind, agg.step, resolved)
       IN  IF todo = "abort"
           THEN agg' = AggReply(got, 500, "agg-error")
           ELSE IF todo = "next"
           THEN agg' = [got EXCEPT !.step = @ + 1,
                          !.calls = Append(@, aggPlan(agg.kind)[agg.step + 1])]
           ELSE IF agg.kind = "dashboard"
           THEN IF got.user = "undefined"
                THEN agg' = AggReply(got, 500, "agg-error")
                ELSE agg' = AggReply([got EXCEPT !.stats =
                                        dashboardStats(got.lists, got.items)],
                                     200, "dashboard")
           ELSE agg' = AggReply([got EXCEPT !.lists = filterLists(@)],
                                200, "search")
    /\ AggUnchanged

\* /health: the loop runs on without awaiting over the names that have no
\* registry record, each of which gets an unhealthy entry
RECURSIVE healthSkip(_, _, _)
healthSkip(reg, results, n) ==
    IF n > Len(HealthServices) THEN [results |-> results, n |-> n]
    ELSE IF getServiceUrl(reg, HealthServices[n]) = "null"
    THEN healthSkip(reg,
                    results @@ (HealthServices[n] :>
                                  [status |-> "unhealthy", error |-> "not-found"]),
                    n + 1)
    ELSE [results |-> results, n |-> n]

HealthGoOn(a, results, n) ==
    LET r == healthSkip(registry, results, n) IN
    IF r.n > Len(HealthServices)
    THEN AggReply([a EXCEPT !.results = r.results], 200, "health")
    ELSE [a EXCEPT !.pc = "wait", !.step = r.n, !.results = r.results,
                   !.calls = Append(@, HealthServices[r.n])]

\* GET /health up to its first await
HealthStart ==
    /\ agg.pc \in {"idle", "done"}
    /\ agg' = HealthGoOn([IdleAgg EXCEPT !.kind = "health"], <<>>, 1)
    /\ AggUnchanged

\* the awaited probe of /health settles
HealthSettle(up) ==
    /\ agg.pc = "wait"
    /\ agg.kind = "health"
    /\ LET resolved == axiosResolves(up)
           name == HealthServices[agg.step]
           entry == IF resolved
                    THEN [status |-> "healthy", error |-> "none"]
                    ELSE [status |-> "unhealthy", error |-> "request-failed"]
           got == [agg EXCEPT !.outcomes = Append(@, resolved)]
       IN  IF afterProbe(agg.step, resolved) = "abort"
           THEN agg' = AggReply(got, 500, "agg-error")
           ELSE agg' = HealthGoOn(got, agg.results @@ (name :> entry), agg.step + 1)
    /\ AggUnchanged

NextAgg ==
    \/ \E auth \in Auths : DashboardStart(auth)
    \/ \E auth \in Auths, q \in BOOLEAN : SearchStart(auth, q)
    \/ \E up \in Upstreams, d \in Payloads : AggSettle(up, d)
    \/ HealthStart
    \/ \E up \in Upstreams : HealthSettle(up)

SpecAgg == InitAgg /\ [][NextAgg]_allvars

\* ------------------------------------------- the other parts, one at a time
GatewayIdle ==
    /\ InitGateway
    /\ probe = IdleProbe
    /\ agg = IdleAgg

\* -- the statistics of GET /api/dashboard, over the lists and the catalog the
\* -- two backends can return
EstimatedTotal == 4

BoolSeqs(n) == UNION {[1..k -> BOOLEAN] : k \in 0..n}

\* a list as the list service returns it: `items` and `summary` may be absent
ListShapes ==
    {[hasItems |-> hi, items |-> it, hasSummary |-> hs,
      estimatedTotal |-> IF hs THEN EstimatedTotal ELSE 0] :
        hi \in BOOLEAN, hs \in BOOLEAN,
        it \in BoolSeqs(MaxListItems)} \ 
    {[hasItems |-> FALSE, items |-> it, hasSummary |-> hs,
      estimatedTotal |-> IF hs THEN EstimatedTotal ELSE 0] :
        hs \in BOOLEAN, it \in BoolSeqs(MaxListItems) \ {<<>>}}

InitStats ==
    /\ GatewayIdle
    /\ path = IdlePath
    /\ ls = IdleLs
    /\ \E n \in 0..MaxLists, c \in 0..MaxCatalog :
        \E lists \in [1..n -> ListShapes] :
            stat = [pc |-> "in", lists |-> lists,
                    items |-> [i \in 1..c |-> "item"], stats |-> NoStats]

ComputeStats ==
    /\ stat.pc = "in"
    /\ stat' = [stat EXCEPT !.pc = "done",
                            !.stats = dashboardStats(stat.lists, stat.items)]
    /\ UNCHANGED <<vars, probe, agg, path, ls>>

NextStats == ComputeStats

SpecStats == InitStats /\ [][NextStats]_allvars

\* -- the path rewrite of the proxy handler, over the URLs the routes match
\* the characters a URL may continue with after the prefix
Alphabet == {"/", "4", "?"}
Remainders == UNION {[1..k -> Alphabet] : k \in 0..MaxRemainder}

\* the routes match without regard to case
upperApi(s) == <<"/", "A", "P", "I">> \o slice(s, Len(Api))

Urls(pathPrefix) ==
    {p \o r : p \in {PrefixChars(pathPrefix), upperApi(PrefixChars(pathPrefix))},
              r \in Remainders}

InitPath ==
    /\ GatewayIdle
    /\ stat = IdleStat
    /\ ls = IdleLs
    /\ \E pathPrefix \in Routes :
        \E originalUrl \in Urls(pathPrefix) :
            path = [pc |-> "in", originalUrl |-> originalUrl,
                    pathPrefix |-> PrefixChars(pathPrefix), out |-> <<>>]

RewritePath ==
    /\ path.pc = "in"
    /\ path' = [path EXCEPT
                   !.pc = "done",
                   !.out = cleanTargetPath(getTargetPath(path.originalUrl,
                                                         path.pathPrefix))]
    /\ UNCHANGED <<vars, probe, agg, stat, ls>>

NextPath == RewritePath

SpecPath == InitPath /\ [][NextPath]_allvars

\* -- POST /lists/:id/items of the list service.  A handler is four steps of
\* -- the event loop, cut at its awaits: up to findById, up to axios.get, up
\* -- to update, and the reply.  Every request carries a valid token of the
\* -- owner of the list.
ListIds == {ListId, "list-2"}
ItemInputs == ItemIds \cup {"undefined"}
Quantities == {1, 2}

InitList ==
    /\ GatewayIdle
    /\ stat = IdleStat
    /\ path = IdlePath
    /\ ls = IdleLs

ListUnchanged == UNCHANGED <<vars, probe, agg, stat, path>>

PostItemStart(k, id, itemId, quantity) ==
    /\ ls.h[k].pc \in {"idle", "done"}
    /\ ls.posts < MaxPosts
    /\ LET h == [IdleHandler EXCEPT !.id = id, !.itemId = itemId,
                                    !.quantity = quantity] IN
       ls' = [ls EXCEPT
                 !.posts = @ + 1,
                 !.h[k] = IF itemId = "undefined"
                          THEN [h EXCEPT !.pc = "done", !.status = 400]
                          ELSE [h EXCEPT !.pc = "findById"]]
    /\ ListUnchanged

FindByIdSettle(k) ==
    /\ ls.h[k].pc = "findById"
    /\ LET r == findById(ls.db, ls.h[k].id) IN
       ls' = [ls EXCEPT
                 !.h[k] = IF ~r.found
                          THEN [@ EXCEPT !.pc = "done", !.status = 404]
                          ELSE [@ EXCEPT !.pc = "axios", !.list = r.doc]]
    /\ ListUnchanged

\* the item service answered (or not); on an answer the item is pushed, the
\* summary recalculated and update called
ItemSettle(k, resolved) ==
    /\ ls.h[k].pc = "axios"
    /\ LET h == ls.h[k]
           listItem == [itemId |-> h.itemId, quantity |-> h.quantity,
                        estimatedPrice |-> averagePrice(h.itemId),
                        purchased |-> FALSE, addedAt |-> ls.clock] IN
       ls' = IF ~resolved
             THEN [ls EXCEPT !.h[k] = [@ EXCEPT !.pc = "done", !.status = 500]]
             ELSE [ls EXCEPT
                      !.clock = @ + 1,
                      !.h[k] = [@ EXCEPT
                                   !.pc = "update",
                                   !.addedAt = ls.clock,
                                   !.list = recalculateSummary(
                                       [h.list EXCEPT
                                           !.items = Append(@, listItem)])]]
    /\ ListUnchanged

UpdateSettle(k) ==
    /\ ls.h[k].pc = "update"
    /\ ls' = [ls EXCEPT
                 !.db = update(ls.db, ls.h[k].list.id, ls.h[k].list),
                 !.acked = @ \cup {ls.h[k].addedAt},
                 !.h[k] = [@ EXCEPT !.pc = "done", !.status = 201]]
    /\ ListUnchanged

NextList ==
    \/ \E k \in Handlers, id \in ListIds, itemId \in ItemInputs,
          quantity \in Quantities : PostItemStart(k, id, itemId, quantity)
    \/ \E k \in Handlers : FindByIdSettle(k)
    \/ \E k \in Handlers, resolved \in BOOLEAN : ItemSettle(k, resolved)
    \/ \E k \in Handlers : UpdateSettle(k)

SpecList == InitList /\ [][NextList]_allvars

\* ------------------------------------------------------------- properties
Elapsed(s) == now - circuitBreaker[s].lastFail
Admit(s) == canRequest(circuitBreaker, s, now).ret

\* C1: the breaker of a service is open exactly when at least MAX_FAILURES
\* failures were recorded in a row since the last recorded success or timeout
\* reset; with 1 or 2 it is closed and canRequest returns true, and once open
\* canRequest returns false while less than CIRCUIT_TIMEOUT has elapsed (so
\* also immediately after the opening failure).
C1_OpensAtThreshold ==
    \A s \in Services :
        /\ circuitBreaker[s].failures = streak[s]
        /\ circuitBreaker[s].open <=> streak[s] >= MAX_FAILURES
        /\ streak[s] < MAX_FAILURES => Admit(s)
        /\ (circuitBreaker[s].open /\ Elapsed(s) < CIRCUIT_TIMEOUT) => ~Admit(s)

\* the third failure in a row has just been recorded and the gate rejects
C1_Witness ==
    /\ last.pc = "done" /\ last.recF = 1 /\ ~last.wasOpen
    /\ last.svc \in Services
    /\ streak[last.svc] = MAX_FAILURES
    /\ circuitBreaker[last.svc].open
    /\ circuitBreaker[last.svc].lastFail = now
    /\ ~Admit(last.svc)

\* C2 (as claimed): canRequest returns false if and only if the breaker is
\* open and strictly less than CIRCUIT_TIMEOUT has elapsed since lastFail; in
\* particular it returns true when exactly CIRCUIT_TIMEOUT has elapsed.
C2_RejectIffWithinWindow ==
    \A s \in Services :
        ~Admit(s) <=> (circuitBreaker[s].open /\ Elapsed(s) < CIRCUIT_TIMEOUT)

\* C3: a request that arrives at an open breaker more than CIRCUIT_TIMEOUT
\* after lastFail is admitted and leaves the breaker closed with failures = 0;
\* afterwards the breaker is open only after a fresh streak of MAX_FAILURES
\* failures, and a closed breaker admits every request.
C3_TimeoutReset ==
    [][/\ \A r \in Reqs, s \in Services :
            (ProxyStart(r, s) /\ circuitBreaker[s].open
                              /\ Elapsed(s) > CIRCUIT_TIMEOUT)
            => /\ ~circuitBreaker'[s].open
               /\ circuitBreaker'[s].failures = 0
               /\ \/ req'[r].pc = "inflight" /\ req'[r].sent = 1
                  \/ last'.body = "not-found" /\ s \notin DOMAIN registry
       /\ \A s \in Services :
            /\ circuitBreaker'[s].open => streak'[s] >= MAX_FAILURES
            /\ ~circuitBreaker'[s].open =>
                   /\ canRequest(circuitBreaker', s, now').ret
                   /\ circuitBreaker'[s].failures < MAX_FAILURES]_vars

\* the request admitted by the timeout reset failed, and the breaker is still
\* closed with that single failure counted
C3_Witness ==
    /\ last.pc = "done" /\ last.gate = "reset" /\ last.recF = 1
    /\ ~circuitBreaker[last.svc].open
    /\ circuitBreaker[last.svc].failures = 1

\* C4: recordSuccess, applied in any reachable breaker state, leaves
\* failures = 0 and open = false, so the next canRequest returns true; a
\* forwarded call that resolves does exactly that to its service.
C4_SuccessCloses ==
    [][/\ \A s \in Services :
            LET cb2 == recordSuccess(circuitBreaker, s) IN
            /\ cb2[s].failures = 0
            /\ ~cb2[s].open
            /\ canRequest(cb2, s, now).ret
       /\ \A r \in Reqs, up \in Upstreams :
            (ProxyComplete(r, up) /\ axiosResolves(up))
            => /\ circuitBreaker'[req[r].svc].failures = 0
               /\ ~circuitBreaker'[req[r].svc].open
               /\ canRequest(circuitBreaker', req[r].svc, now').ret]_vars

\* a success was recorded while the breaker was open (the request had been
\* admitted before it opened), and the breaker is closed
C4_Witness ==
    /\ last.pc = "done" /\ last.recS = 1 /\ last.wasOpen
    /\ ~circuitBreaker[last.svc].open
    /\ circuitBreaker[last.svc].failures = 0
    /\ Admit(last.svc)

\* C5: whenever a breaker is open, failures >= MAX_FAILURES and lastFail
\* holds a timestamp, in every interleaving of concurrent requests.
C5_OpenImplies ==
    \A s \in Services :
        circuitBreaker[s].open =>
            /\ circuitBreaker[s].failures >= MAX_FAILURES
            /\ circuitBreaker[s].lastFail # Null

\* a breaker is open with more failures than the threshold: a request that
\* was in flight when it opened has failed too
C5_Witness ==
    /\ last.pc = "done" /\ last.recF = 1 /\ last.wasOpen
    /\ circuitBreaker[last.svc].open
    /\ circuitBreaker[last.svc].failures > MAX_FAILURES

\* C6: a proxied request that canRequest rejects is answered 503, sends
\* nothing to the backend and changes neither the registry nor any breaker
\* state.
C6_RejectedIsInert ==
    [][\A r \in Reqs, s \in Services :
          (ProxyStart(r, s) /\ ~Admit(s))
          => /\ last'.status = 503 /\ last'.replies = 1
             /\ last'.sent = 0 /\ last'.recS = 0 /\ last'.recF = 0
             /\ req' = req
             /\ registry' = registry
             /\ circuitBreaker' = circuitBreaker]_vars

\* a request for a registered service was rejected by the open breaker
C6_Witness ==
    /\ last.pc = "done" /\ last.gate = "rejected" /\ last.status = 503
    /\ last.svc \in DOMAIN registry
    /\ circuitBreaker[last.svc].open

\* C7: for a service name with no registry record discover fails, and a
\* proxied call to it is answered 503 with no backend request and no breaker
\* success or failure recorded.
C7_UnknownService ==
    [][\A r \in Reqs, s \in Services :
          (ProxyStart(r, s) /\ s \notin DOMAIN registry)
          => /\ ~discover(registry, s).ok
             /\ last'.pc = "done" /\ last'.svc = s
             /\ last'.status = 503 /\ last'.replies = 1
             /\ last'.sent = 0 /\ last'.recS = 0 /\ last'.recF = 0
             /\ req' = req
             /\ circuitBreaker'[s].failures \in {0, circuitBreaker[s].failures}
             /\ circuitBreaker'[s].lastFail = circuitBreaker[s].lastFail]_vars

\* a call to an unregistered service passed the gate and was answered 503
C7_Witness ==
    /\ last.pc = "done" /\ last.body = "not-found" /\ last.status = 503
    /\ last.gate = "closed"
    /\ last.svc \notin DOMAIN registry

\* C8 (as claimed): for a forwarded call, recordSuccess is called if and only
\* if a response was received, whatever its status.
C8_SuccessIffResponse ==
    (last.pc = "done" /\ last.sent = 1)
    => ((last.recS = 1) <=> (last.upstream # NoResponse))

\* C9: when a forwarded call ends in a transport failure or an upstream
\* error status, recordFailure is applied to that service, and the client
\* gets the upstream status and body if a response was received and a
\* synthesized 500 otherwise.
C9_FailureRecordedAndRelayed ==
    [][\A r \in Reqs, up \in Upstreams :
            (ProxyComplete(r, up) /\ ~axiosResolves(up))
            => /\ circuitBreaker'[req[r].svc].failures
                      = circuitBreaker[req[r].svc].failures + 1
               /\ circuitBreaker' = recordFailure(circuitBreaker, req[r].svc, now)
               /\ last'.pc = "done" /\ last'.svc = req[r].svc
               /\ last'.upstream = up
               /\ last'.recF = 1 /\ last'.recS = 0
               /\ IF up # NoResponse
                  THEN last'.status = up.status /\ last'.body = up.body
                  ELSE last'.status = 500 /\ last'.body = "forward-error"]_vars

\* an upstream error status was relayed and counted as a failure
C9_Witness ==
    /\ last.pc = "done" /\ last.recF = 1
    /\ last.upstream # NoResponse
    /\ last.status = 404 /\ last.body = UpstreamBody
    /\ circuitBreaker[last.svc].failures >= 1

\* C10: a proxied request that passes the gate and the registry lookup
\* causes exactly one backend request, records exactly one outcome and sends
\* exactly one response.
C10_ExactlyOnce ==
    [][/\ \A r \in Reqs :
            req'[r].pc = "inflight" =>
                /\ req'[r].sent = 1 /\ req'[r].replies = 0
                /\ req'[r].recS = 0 /\ req'[r].recF = 0
       /\ (last'.pc = "done" /\ last'.sent > 0) =>
                /\ last'.sent = 1 /\ last'.replies = 1
                /\ last'.recS + last'.recF = 1
       /\ \A r \in Reqs, s \in Services :
            (ProxyStart(r, s) /\ Admit(s) /\ s \in DOMAIN registry)
            => (req'[r].pc = "inflight" /\ req'[r].sent = 1 /\ last' = last)
       /\ \A r \in Reqs, up \in Upstreams :
            ProxyComplete(r, up)
            => /\ req'[r].pc = "idle"
               /\ last'.pc = "done" /\ last'.svc = req[r].svc
               /\ last'.sent = 1 /\ last'.replies = 1
               /\ last'.recS + last'.recF = 1]_vars

\* a forwarded request failed and was answered once, with one failure recorded
C10_Witness ==
    /\ last.pc = "done" /\ last.sent = 1 /\ last.replies = 1
    /\ last.recF = 1 /\ last.recS = 0
    /\ last.upstream = NoResponse /\ last.status = 500

\* C11 (as claimed): a name with no circuit state is admitted, its state is
\* created by the first recorded outcome, and for every name MAX_FAILURES
\* recordFailure calls in a row open the breaker.
C11_AnyNameOpens ==
    \A n \in Names :
        /\ n \notin DOMAIN circuitBreaker => canRequest(circuitBreaker, n, now).ret
        /\ (probe.name = n /\ probe.op \in {"recordFailure", "recordSuccess"})
               => n \in DOMAIN circuitBreaker
        /\ streak[n] >= MAX_FAILURES
               => (n \in DOMAIN circuitBreaker /\ circuitBreaker[n].open)

\* C18 (as claimed): while a breaker stays open its lastFail does not change,
\* also when a failure is recorded for it while it is open.
C18_OpenedAtFixed ==
    [][\A s \in Services :
          (circuitBreaker[s].open /\ circuitBreaker'[s].open)
          => circuitBreaker'[s].lastFail = circuitBreaker[s].lastFail]_vars

\* C19: breaker state is per service: canRequest, recordSuccess and
\* recordFailure for one name leave failures, open and lastFail of every other
\* name as they were, so a proxied request on a route of one service never
\* changes whether the routes of another service are admitted; /api/auth and
\* /api/users share user-service, /api/items and /api/lists have their own.
C19_PerServiceIsolation ==
    [][/\ \A s \in Services : \A o \in Services \ {s} :
            /\ canRequest(circuitBreaker, s, now).cb[o] = circuitBreaker[o]
            /\ recordSuccess(circuitBreaker, s)[o] = circuitBreaker[o]
            /\ recordFailure(circuitBreaker, s, now)[o] = circuitBreaker[o]
       /\ (req' # req \/ arrivals' # arrivals) =>
            \* the step is a step of proxyRequest, for the service `served`
            LET served == IF req' = req \/ arrivals' = arrivals THEN last'.svc
                          ELSE req'[CHOOSE r \in Reqs : req'[r] # req[r]].svc IN
            \A q \in Routes :
                RouteService(q) # served
                => /\ circuitBreaker'[RouteService(q)] = circuitBreaker[RouteService(q)]
                   /\ canRequest(circuitBreaker', RouteService(q), now').ret
                         = canRequest(circuitBreaker, RouteService(q), now).ret
       /\ RouteService("/api/auth") = RouteService("/api/users")
       /\ Cardinality({RouteService(p) : p \in Routes \ {"/api/auth"}}) = 3]_vars

\* the breaker of one service is open and rejects, and a request to another
\* service has just been forwarded and answered
C19_Witness ==
    /\ last.pc = "done" /\ last.recS = 1 /\ last.status = 200
    /\ \E o \in Services \ {last.svc} :
          /\ circuitBreaker[o].open
          /\ ~Admit(o)
    /\ ~circuitBreaker[last.svc].open

Range(f) == {f[i] : i \in DOMAIN f}

\* C12 (as claimed): /api/dashboard and /api/search send a request to a
\* service only if canRequest admits it, so none is sent to a service whose
\* breaker is open and whose timeout has not elapsed.
C12_AggregationGated ==
    agg.kind \in {"dashboard", "search"}
    => \A i \in DOMAIN agg.calls : Admit(agg.calls[i])

\* C13: when an upstream call of an authenticated dashboard or search request
\* fails, the response is a 500 without data, whichever call it was, and no
\* call is issued after the failed one.
C13_AllOrNothing ==
    agg.kind \in {"dashboard", "search"}
    => /\ Len(agg.outcomes) <= Len(agg.calls)
       /\ \A i \in DOMAIN agg.outcomes :
            ~agg.outcomes[i]
            => /\ i = Len(agg.calls)
               /\ agg.pc = "done"
               /\ agg.status = 500
               /\ agg.body = "agg-error"
               /\ agg.stats = NoStats

\* the dashboard's second call failed after the first had succeeded
C13_Witness ==
    /\ agg.kind = "dashboard" /\ agg.pc = "done" /\ agg.auth = "valid"
    /\ agg.calls = <<"user-service", "list-service">>
    /\ agg.outcomes = <<TRUE, FALSE>>
    /\ agg.user = "user"
    /\ agg.status = 500

\* C14 (as claimed): /health answers 200 with exactly one entry per
\* registered service.
C14_EntryPerRegistered ==
    (agg.kind = "health" /\ agg.pc = "done")
    => /\ agg.status = 200
       /\ DOMAIN agg.results = DOMAIN registry

\* C14 (amended): /health answers 200 with exactly one entry for each of
\* user-service, item-service and list-service, registered or not; a service
\* without registry record or whose probe fails is reported unhealthy, and
\* every registered service is probed and reported whatever happened to the
\* probes before it.
C14_EntryPerKnownService ==
    (agg.kind = "health" /\ agg.pc = "done")
    => /\ agg.status = 200
       /\ DOMAIN agg.results = Range(HealthServices)
       /\ \A n \in Range(HealthServices) \ DOMAIN registry :
            /\ agg.results[n].status = "unhealthy"
            /\ n \notin Range(agg.calls)
       /\ Range(agg.calls) = DOMAIN registry
       /\ Len(agg.outcomes) = Len(agg.calls)
       /\ \A i \in DOMAIN agg.calls :
            agg.results[agg.calls[i]].status
               = IF agg.outcomes[i] THEN "healthy" ELSE "unhealthy"

\* one service is not registered, the probe of another failed, and a later
\* probe succeeded and is reported
C14_Witness ==
    /\ agg.kind = "health" /\ agg.pc = "done" /\ agg.status = 200
    /\ DOMAIN registry # Range(HealthServices)
    /\ \E i, j \in DOMAIN agg.outcomes :
          i < j /\ ~agg.outcomes[i] /\ agg.outcomes[j]

\* C15: /api/dashboard and /api/search answer 401 to a missing or invalid
\* bearer token, and /api/search answers 400 to a valid token without q; in
\* both cases no backend is contacted.
C15_AuthAndQuery ==
    (agg.kind \in {"dashboard", "search"})
    => /\ agg.auth # "valid"
          => (agg.pc = "done" /\ agg.status = 401 /\ agg.calls = <<>>)
       /\ (agg.kind = "search" /\ agg.auth = "valid" /\ ~agg.q)
          => (agg.pc = "done" /\ agg.status = 400 /\ agg.calls = <<>>)

\* a search with a valid token and no q was answered 400
C15_Witness ==
    /\ agg.kind = "search" /\ agg.pc = "done"
    /\ agg.auth = "valid" /\ ~agg.q
    /\ agg.status = 400 /\ agg.calls = <<>>
    /\ DOMAIN registry = Services

\* C17: on a successful dashboard request totalLists is the number of lists,
\* totalItemsInLists the number of items over all lists, totalPurchased the
\* number of items with purchased true over all lists, totalEstimated the
\* sum of the lists' summary.estimatedTotal, and totalCatalogItems the
\* number of catalog items; a list without an items array or without a
\* summary contributes 0.
ItemSlots(lists) ==
    UNION {{<<i, j>> : j \in DOMAIN lists[i].items} :
              i \in {k \in DOMAIN lists : lists[k].hasItems}}

RECURSIVE TotalOver(_, _)
TotalOver(S, lists) ==
    IF S = {} THEN 0
    ELSE LET i == CHOOSE k \in S : TRUE IN
         lists[i].estimatedTotal + TotalOver(S \ {i}, lists)

C17_DashboardStats ==
    stat.pc = "done" =>
        /\ stat.stats.totalLists = Cardinality(DOMAIN stat.lists)
        /\ stat.stats.totalItemsInLists = Cardinality(ItemSlots(stat.lists))
        /\ stat.stats.totalPurchased =
               Cardinality({s \in ItemSlots(stat.lists) :
                               stat.lists[s[1]].items[s[2]]})
        /\ stat.stats.totalEstimated =
               TotalOver({i \in DOMAIN stat.lists : stat.lists[i].hasSummary},
                         stat.lists)
        /\ stat.stats.totalCatalogItems = Cardinality(DOMAIN stat.items)

C17_Witness ==
    /\ stat.pc = "done"
    /\ \E i \in DOMAIN stat.lists : ~stat.lists[i].hasItems /\ ~stat.lists[i].hasSummary
    /\ stat.stats.totalLists = 2
    /\ stat.stats.totalItemsInLists = 2
    /\ stat.stats.totalPurchased = 1
    /\ stat.stats.totalEstimated = EstimatedTotal
    /\ stat.stats.totalCatalogItems = 1

\* C16: for an inbound URL that starts with the prefix /api/X the backend
\* path is /X followed by the unchanged remainder after the prefix, an empty
\* remainder gives exactly /X, and the result begins with exactly one '/'.
C16_RemainderPreserved ==
    (path.pc = "done" /\ startsWith(path.originalUrl, path.pathPrefix)) =>
        LET X == slice(path.pathPrefix, Len(Api))
            remainder == slice(path.originalUrl, Len(path.pathPrefix)) IN
        /\ path.out = X \o remainder
        /\ remainder = <<>> => path.out = X
        /\ Len(path.out) >= 2 /\ path.out[1] = "/" /\ path.out[2] # "/"

====
